---- MODULE Spec2Model ----
(***************************************************************************)
(* Model of the sentiment analyzer: the service processes of               *)
(* backend/main.py (module-level load/train block, then the /analyze       *)
(* handler) and the offline trainer of train.py, sharing one artifact      *)
(* file, sentiment_model.joblib.                                           *)
(***************************************************************************)
EXTENDS Integers, Sequences, FiniteSets, TLC

\* ---------------------------------------------------------------- bounds
NumWorkers == 2      \* service processes started against the same directory
NumDocs == 2         \* documents (file ids) of the corpus
MaxComments == 2     \* comments returned by one fetch (the code asks for up to 100)

Workers == 1..NumWorkers
FileIds == 1..NumDocs

\* ---------------------------------------------------------------- values
\* sentiment_pipeline = None, and a fitted Pipeline predicting the given labels
None == [kind |-> "None", classes |-> {}]
Pipeline(classes) == [kind |-> "Pipeline", classes |-> classes]

\* Content of the file MODEL_FILE: absent, a complete serialized pipeline,
\* a file that is no serialized pipeline, or the prefix an interrupted dump left.
Absent == [kind |-> "absent", classes |-> {}]
Corrupt == [kind |-> "corrupt", classes |-> {}]
Partial == [kind |-> "partial", classes |-> {}]
Complete(classes) == [kind |-> "complete", classes |-> classes]

\* Artifacts that can be in place when a process starts: none, one written by
\* an earlier training run (labels 0/1), one trained elsewhere with labels
\* -1/1, or a file that does not deserialize.
InitialArtifacts == {Absent, Corrupt, Complete({0, 1}), Complete({-1, 1})}

\* movie_reviews.categories(fileid): the sorted list of a document's categories
CategoryLists == {<<>>, <<"neg">>, <<"pos">>, <<"neg", "pos">>}

\* the corpus directory before nltk.download has fetched it, and the corpora a
\* download can put there
NoCorpus == <<>>
Corpora == [FileIds -> CategoryLists]

\* log messages of main.py
MsgLoaded == "Loaded pre-trained sentiment model from file."
MsgNotFound == "Pre-trained model not found. Training a new model..."
MsgTraining == "Training the model... This might take a moment."
MsgSaved == "New model trained and saved as sentiment_model.joblib."
MsgFailed == "Failed to train or save the model"

VARIABLES
    artifact,            \* content of the file sentiment_model.joblib
    corpus,              \* file id -> list of categories (the NLTK corpus on disk)
    pc,                  \* per service process: position in main.py
    sentiment_pipeline,  \* per service process: the module-level global
    log,                 \* per service process: messages logged by the load/train block
    response,            \* the /analyze request being answered and its outcome
    tpc                  \* position of the train.py process

vars == <<artifact, corpus, pc, sentiment_pipeline, log, response, tpc>>

\* ------------------------------------------------------- pure functions
\* joblib.load(MODEL_FILE) as main.py sees it
load(file) ==
    CASE file.kind = "complete" -> [raised |-> "no", value |-> Pipeline(file.classes)]
      [] file.kind = "absent" -> [raised |-> "FileNotFoundError", value |-> None]
      [] OTHER -> [raised |-> "UnpicklingError", value |-> None]

\* sentiments = [categories(fileid)[0] for fileid in fileids]: raises IndexError
\* on a document without category, takes the first category otherwise
HasLabel(c) == \A f \in FileIds : Len(c[f]) >= 1
sentiments(c) == [f \in FileIds |-> c[f][1]]

\* y = [1 if s == 'pos' else 0 for s in sentiments]
y(c) == [f \in FileIds |-> IF sentiments(c)[f] = "pos" THEN 1 ELSE 0]

\* the labels fit() sees; liblinear refuses a single class
Classes(c) == {y(c)[f] : f \in FileIds}
CanFit(c) == HasLabel(c) /\ Cardinality(Classes(c)) >= 2


\* Pipeline([...]) of line 68, before fit
Unfitted == [kind |-> "Unfitted", classes |-> {}]

\* except Exception (lines 81-83): the value the global is left with, given the
\* value it had when the exception was raised
TrainFailed_keep(current) == current
TrainFailed(current) == None

\* the try/except of lines 39-45 applied to the outcome of load(): where the
\* process goes next, what the global holds and what is logged
AfterLoad_fallthrough(r) ==
    CASE r.raised = "no" -> [pc |-> "download", pipeline |-> r.value, msgs |-> {MsgLoaded}]
      [] r.raised = "FileNotFoundError" -> [pc |-> "download", pipeline |-> None, msgs |-> {MsgNotFound}]
      [] OTHER -> [pc |-> "crashed", pipeline |-> None, msgs |-> {}]
AfterLoad(r) ==
    CASE r.raised = "no" -> [pc |-> "serving", pipeline |-> r.value, msgs |-> {MsgLoaded}]
      [] r.raised = "FileNotFoundError" -> [pc |-> "download", pipeline |-> None, msgs |-> {MsgNotFound}]
      [] OTHER -> [pc |-> "crashed", pipeline |-> None, msgs |-> {}]

\* processes that hold MODEL_FILE open for writing
Writers == {w \in Workers : pc[w] = "dumping"}
TrainerWrites == tpc = "dumping"

\* no request is being answered
NoResponse == [worker |-> 0, url |-> "", kind |-> "none", status |-> 0, detail |-> "",
               positive |-> 0, negative |-> 0, n |-> 0, work |-> {}]

\* -------------------------------------------------- startup of main.py
\* The processes stand at line 36: the API key check of lines 31-33 has passed,
\* nothing is loaded, the corpus is not on disk and train.py has not run.
Init ==
    /\ artifact \in InitialArtifacts
    /\ corpus = NoCorpus
    /\ pc = [w \in Workers |-> "start"]
    /\ sentiment_pipeline = [w \in Workers |-> None]
    /\ log = [w \in Workers |-> {}]
    /\ response = NoResponse
    /\ tpc = "idle"

\* lines 39-45: load the artifact; an exception other than FileNotFoundError
\* is not caught and ends the process during import
Load(w) ==
    /\ pc[w] = "start"
    /\ LET a == AfterLoad(load(artifact)) IN
        /\ pc' = [pc EXCEPT ![w] = a.pc]
        /\ sentiment_pipeline' = [sentiment_pipeline EXCEPT ![w] = a.pipeline]
        /\ log' = [log EXCEPT ![w] = @ \cup a.msgs]
    /\ UNCHANGED <<artifact, corpus, response, tpc>>

\* nltk.download('movie_reviews'): what a successful download leaves on disk;
\* a corpus that is there already is kept
Downloadable == IF corpus = NoCorpus THEN Corpora ELSE {corpus}

\* lines 46-54: nltk.download and the enumeration of the corpus; without the
\* corpus on disk fileids() raises, which lines 81-83 handle
Download(w) ==
    /\ pc[w] = "download"
    /\ \E ok \in BOOLEAN, c \in Downloadable :
        /\ corpus' = IF ok THEN c ELSE corpus
        /\ IF corpus' # NoCorpus
           THEN /\ pc' = [pc EXCEPT ![w] = "fit"]
                /\ UNCHANGED <<sentiment_pipeline, log>>
           ELSE /\ pc' = [pc EXCEPT ![w] = "serving"]
                /\ sentiment_pipeline' = [sentiment_pipeline EXCEPT ![w] = TrainFailed(@)]
                /\ log' = [log EXCEPT ![w] = @ \cup {MsgFailed}]
    /\ UNCHANGED <<artifact, response, tpc>>

\* lines 57-75: documents, labels, Pipeline(...) and fit
Fit(w) ==
    /\ pc[w] = "fit"
    /\ \E ok \in BOOLEAN :
        IF ok /\ CanFit(corpus)
        THEN /\ pc' = [pc EXCEPT ![w] = "dump"]
             /\ sentiment_pipeline' = [sentiment_pipeline EXCEPT ![w] = Pipeline(Classes(corpus))]
             /\ log' = [log EXCEPT ![w] = @ \cup {MsgTraining}]
        ELSE /\ pc' = [pc EXCEPT ![w] = "serving"]
             /\ sentiment_pipeline' = [sentiment_pipeline EXCEPT ![w] =
                    IF HasLabel(corpus) THEN TrainFailed(Unfitted) ELSE TrainFailed(@)]
             /\ log' = [log EXCEPT ![w] = @ \cup
                    (IF HasLabel(corpus) THEN {MsgTraining, MsgFailed} ELSE {MsgFailed})]
    /\ UNCHANGED <<artifact, corpus, response, tpc>>

\* line 78, first half: dump() opens MODEL_FILE for writing, which truncates it
DumpBegin(w) ==
    /\ pc[w] = "dump"
    /\ artifact' = Partial
    /\ pc' = [pc EXCEPT ![w] = "dumping"]
    /\ UNCHANGED <<corpus, sentiment_pipeline, log, response, tpc>>

\* line 78, second half: the last byte is written and the file closed; the file
\* is whole unless another process is still writing into it
DumpEnd(w) ==
    /\ pc[w] = "dumping"
    /\ artifact' = IF Writers # {w} \/ TrainerWrites
                   THEN Partial
                   ELSE Complete(sentiment_pipeline[w].classes)
    /\ pc' = [pc EXCEPT ![w] = "serving"]
    /\ log' = [log EXCEPT ![w] = @ \cup {MsgSaved}]
    /\ UNCHANGED <<corpus, sentiment_pipeline, response, tpc>>

\* line 78 raising (no permission, disk full, ...), handled at lines 81-83
DumpFail(w) ==
    /\ pc[w] \in {"dump", "dumping"}
    /\ pc' = [pc EXCEPT ![w] = "serving"]
    /\ sentiment_pipeline' = [sentiment_pipeline EXCEPT ![w] = TrainFailed(@)]
    /\ log' = [log EXCEPT ![w] = @ \cup {MsgFailed}]
    /\ UNCHANGED <<artifact, corpus, response, tpc>>

\* the process is killed while dump() is writing
Kill(w) ==
    /\ pc[w] = "dumping"
    /\ pc' = [pc EXCEPT ![w] = "killed"]
    /\ UNCHANGED <<artifact, corpus, sentiment_pipeline, log, response, tpc>>

\* ------------------------------------------------ train.py, run offline
\* lines 15-33: download, load the corpus, fit; any exception ends in exit(1)
TrainerRun ==
    /\ tpc = "idle"
    /\ \E ok, fits \in BOOLEAN, c \in Downloadable :
        /\ corpus' = IF ok THEN c ELSE corpus
        /\ tpc' = IF corpus' # NoCorpus /\ fits /\ CanFit(corpus') THEN "dump" ELSE "exit1"
    /\ UNCHANGED <<artifact, pc, sentiment_pipeline, log, response>>

\* line 36, first half: dump() opens and truncates the file
TrainerDumpBegin ==
    /\ tpc = "dump"
    /\ artifact' = Partial
    /\ tpc' = "dumping"
    /\ UNCHANGED <<corpus, pc, sentiment_pipeline, log, response>>

\* line 36, second half, and line 37
TrainerDumpEnd ==
    /\ tpc = "dumping"
    /\ artifact' = IF Writers # {} THEN Partial ELSE Complete(Classes(corpus))
    /\ tpc' = "exit0"
    /\ UNCHANGED <<corpus, pc, sentiment_pipeline, log, response>>

\* line 36 raising: lines 39-42 log and exit(1)
TrainerDumpFail ==
    /\ tpc \in {"dump", "dumping"}
    /\ tpc' = "exit1"
    /\ UNCHANGED <<artifact, corpus, pc, sentiment_pipeline, log, response>>

\* the trainer is killed while dump() is writing
TrainerKill ==
    /\ tpc = "dumping"
    /\ tpc' = "killed"
    /\ UNCHANGED <<artifact, corpus, pc, sentiment_pipeline, log, response>>

\* ------------------------------------------------------------ /analyze
\* request URLs, and extract_video_id on them (the regex of line 92 evaluated)
Urls == {"https://www.youtube.com/watch?v=dQw4w9WgXcQ",
         "https://youtu.be/dQw4w9WgXcQ",
         "https://example.com/watch?v=dQw4w9WgXcQ"}
NoId == "None"
extract_video_id(url) ==
    CASE url = "https://www.youtube.com/watch?v=dQw4w9WgXcQ" -> "dQw4w9WgXcQ"
      [] url = "https://youtu.be/dQw4w9WgXcQ" -> "dQw4w9WgXcQ"
      [] OTHER -> NoId

\* comment bodies the API returns; NullText stands for a textDisplay that is
\* no string (JSON null)
NullText == "<null>"
CommentItems == {"great video", NullText}

RECURSIVE SeqsUpTo(_, _)
SeqsUpTo(S, k) ==
    IF k = 0 THEN {<<>>}
    ELSE LET shorter == SeqsUpTo(S, k - 1) IN
         shorter \cup {Append(q, x) : q \in {t \in shorter : Len(t) = k - 1}, x \in S}

\* what request.execute() of line 105 can do
NotCalled == [kind |-> "not called", items |-> <<>>, content |-> ""]
ApiOutcomes ==
    {[kind |-> "ok", items |-> c, content |-> ""] : c \in SeqsUpTo(CommentItems, MaxComments)}
    \cup {[kind |-> "HttpError", items |-> <<>>, content |-> c] : c \in {"commentsDisabled", "quotaExceeded"}}
    \cup {[kind |-> "Exception", items |-> <<>>, content |-> ""]}

\* an HTTPException raised by the handler, as a response
Failure(kind, status, detail, work) ==
    [kind |-> kind, status |-> status, detail |-> detail,
     positive |-> 0, negative |-> 0, n |-> 0, work |-> work]

\* get_video_comments: the comments, or the HTTPException it raises
get_video_comments(api) ==
    CASE api.kind = "ok" -> [raised |-> FALSE, comments |-> api.items, status |-> 200, kind |-> "", detail |-> ""]
      [] api.kind = "HttpError" /\ api.content = "commentsDisabled" ->
            [raised |-> TRUE, comments |-> <<>>, status |-> 403, kind |-> "comments_disabled",
             detail |-> "Comments are disabled for this video."]
      [] api.kind = "HttpError" ->
            [raised |-> TRUE, comments |-> <<>>, status |-> 500, kind |-> "fetch_failure",
             detail |-> "Failed to fetch comments. Check URL or API key."]
      [] OTHER ->
            [raised |-> TRUE, comments |-> <<>>, status |-> 500, kind |-> "fetch_failure",
             detail |-> "An internal server error occurred."]

\* sentiment_pipeline.predict(comments): raises on an unfitted pipeline or a
\* comment that is no text, else one label of the pipeline per comment
PredictOutcomes(pipeline, comments) ==
    IF pipeline.kind # "Pipeline" \/ \E i \in 1..Len(comments) : comments[i] = NullText
    THEN {[raised |-> TRUE, labels |-> <<>>]}
    ELSE {[raised |-> FALSE, labels |-> l] : l \in [1..Len(comments) -> pipeline.classes]}

\* lines 134-137: one iteration of the counting loop
Count_elif(counts, pred) ==
    IF pred = 1 THEN [counts EXCEPT !.positive = @ + 1]
    ELSE IF pred = 0 THEN [counts EXCEPT !.negative = @ + 1]
    ELSE counts
Count(counts, pred) ==
    IF pred = 1 THEN [counts EXCEPT !.positive = @ + 1]
    ELSE [counts EXCEPT !.negative = @ + 1]

\* lines 129-137: the loop over the predictions
RECURSIVE CountFrom(_, _, _)
CountFrom(predictions, i, counts) ==
    IF i > Len(predictions) THEN counts
    ELSE CountFrom(predictions, i + 1, Count(counts, predictions[i]))
sentiment_counts(predictions) == CountFrom(predictions, 1, [positive |-> 0, negative |-> 0])

\* lines 131-142: try predict and count, except Exception -> HTTPException(500)
Classify_uncaught(comments, p, work) ==
    IF p.raised
    THEN Failure("unhandled", 0, "", work)
    ELSE [kind |-> "tally", status |-> 200, detail |-> "",
          positive |-> sentiment_counts(p.labels).positive,
          negative |-> sentiment_counts(p.labels).negative,
          n |-> Len(comments), work |-> work]
Classify(comments, p, work) ==
    IF p.raised
    THEN Failure("inference_failure", 500, "Failed to analyze comments.", work)
    ELSE [kind |-> "tally", status |-> 200, detail |-> "",
          positive |-> sentiment_counts(p.labels).positive,
          negative |-> sentiment_counts(p.labels).negative,
          n |-> Len(comments), work |-> work]

\* lines 117-142: the handler's outcome for a request, given what the API and
\* the pipeline do; work lists the steps the handler took
analyze_late_check(pipeline, url, api, p) ==
    IF extract_video_id(url) = NoId
    THEN Failure("invalid_url", 400, "Invalid or unsupported YouTube URL.", {"extract"})
    ELSE IF pipeline = None
    THEN Failure("model_unavailable", 503, "Sentiment model is not available.", {"extract"})
    ELSE LET fetched == get_video_comments(api) IN
         IF fetched.raised
         THEN Failure(fetched.kind, fetched.status, fetched.detail, {"extract", "fetch"})
         ELSE IF fetched.comments = <<>>
         THEN [kind |-> "tally", status |-> 200, detail |-> "", positive |-> 0,
               negative |-> 0, n |-> 0, work |-> {"extract", "fetch"}]
         ELSE Classify(fetched.comments, p, {"extract", "fetch", "predict"})
analyze_video_comments(pipeline, url, api, p) ==
    IF pipeline = None
    THEN Failure("model_unavailable", 503, "Sentiment model is not available.", {})
    ELSE IF extract_video_id(url) = NoId
    THEN Failure("invalid_url", 400, "Invalid or unsupported YouTube URL.", {"extract"})
    ELSE LET fetched == get_video_comments(api) IN
         IF fetched.raised
         THEN Failure(fetched.kind, fetched.status, fetched.detail, {"extract", "fetch"})
         ELSE IF fetched.comments = <<>>
         THEN [kind |-> "tally", status |-> 200, detail |-> "", positive |-> 0,
               negative |-> 0, n |-> 0, work |-> {"extract", "fetch"}]
         ELSE Classify(fetched.comments, p, {"extract", "fetch", "predict"})

\* the API's answers to the call a request makes, if it gets that far
ApiCall(pipeline, url) ==
    IF pipeline = None \/ extract_video_id(url) = NoId THEN {NotCalled} ELSE ApiOutcomes

\* one request handled by process w: response is what the handler returns or
\* raises, until Respond hands it to the client
Analyze_reset(w) ==
    /\ pc[w] = "serving"
    /\ response = NoResponse
    /\ \E url \in Urls :
       \E api \in ApiCall(sentiment_pipeline[w], url) :
        \E p \in PredictOutcomes(sentiment_pipeline[w], api.items) :
            LET r == analyze_video_comments(sentiment_pipeline[w], url, api, p) IN
            /\ response' = [worker |-> w, url |-> url] @@ r
            /\ sentiment_pipeline' = [sentiment_pipeline EXCEPT ![w] =
                    IF r.kind = "inference_failure" THEN None ELSE @]
    /\ UNCHANGED <<artifact, corpus, pc, log, tpc>>
Analyze(w) ==
    /\ pc[w] = "serving"
    /\ response = NoResponse
    /\ \E url \in Urls :
       \E api \in ApiCall(sentiment_pipeline[w], url) :
        \E p \in PredictOutcomes(sentiment_pipeline[w], api.items) :
            LET r == analyze_video_comments(sentiment_pipeline[w], url, api, p) IN
            /\ response' = [worker |-> w, url |-> url] @@ r
    /\ UNCHANGED <<artifact, corpus, pc, sentiment_pipeline, log, tpc>>

\* the route of line 116 sends the handler's result to the client, which ends
\* the request
Respond ==
    /\ response # NoResponse
    /\ response' = NoResponse
    /\ UNCHANGED <<artifact, corpus, pc, sentiment_pipeline, log, tpc>>

\* ----------------------------------------------------------------- spec
Next ==
    \/ \E w \in Workers : Load(w)
    \/ \E w \in Workers : Download(w)
    \/ \E w \in Workers : Fit(w)
    \/ \E w \in Workers : DumpBegin(w)
    \/ \E w \in Workers : DumpEnd(w)
    \/ \E w \in Workers : DumpFail(w)
    \/ \E w \in Workers : Kill(w)
    \/ \E w \in Workers : Analyze(w)
    \/ Respond

\* the service processes, started against the directory as Init describes it
Spec == Init /\ [][Next]_vars

\* train.py run on its own, as the build step it is written to be
TrainerNext ==
    \/ TrainerRun
    \/ TrainerDumpBegin
    \/ TrainerDumpEnd
    \/ TrainerDumpFail
    \/ TrainerKill

TrainerSpec == Init /\ [][TrainerNext]_vars

\* ---------------------------------------------------------------- claims
\* C1: a returned tally counts every comment handed to classification exactly
\* once, whatever labels the pipeline predicted: positive + negative = n, and
\* for n = 0 both counts are 0.
C1_TallySumsToBatch ==
    response.kind = "tally" =>
        /\ response.positive + response.negative = response.n
        /\ response.n = 0 => (response.positive = 0 /\ response.negative = 0)

\* a full batch classified by a pipeline whose labels are not 0/1, with
\* comments on both sides of the tally
C1_Witness ==
    /\ response.kind = "tally"
    /\ response.n = MaxComments
    /\ response.positive >= 1
    /\ response.negative >= 1
    /\ sentiment_pipeline[response.worker].classes = {-1, 1}

\* C2: a process that found no artifact and whose training failed (download,
\* fit or save) finishes startup serving with sentiment_pipeline = None, and
\* every request it handles is answered 503 model unavailable.
C2_FailedTrainingIsUnavailable ==
    \A w \in Workers :
        MsgFailed \in log[w] =>
            /\ MsgNotFound \in log[w]
            /\ pc[w] = "serving"
            /\ sentiment_pipeline[w] = None
            /\ response.worker = w =>
                    (response.kind = "model_unavailable" /\ response.status = 503)

\* a request answered by a process whose training got as far as fit or dump
\* before it failed
C2_Witness ==
    \E w \in Workers :
        /\ {MsgTraining, MsgFailed} \subseteq log[w]
        /\ response.worker = w

\* C3: after a training run has failed or was killed, and with no writer at
\* work, the artifact is never a partial file.
C3_AtomicArtifactWrite ==
    (Writers = {} /\ ~TrainerWrites) => artifact.kind # "partial"

\* C4: a process never dies during startup; an artifact that cannot be
\* deserialized leaves it serving in the model-unavailable state.
C4_StartupNeverCrashes ==
    \A w \in Workers : pc[w] # "crashed"

\* C5: with the model unavailable a request is answered 503 before any work:
\* no id extracted, no comments fetched, nothing predicted, whatever the URL.
C5_UnavailableDoesNoWork ==
    (response # NoResponse /\ sentiment_pipeline[response.worker] = None) =>
        /\ response.kind = "model_unavailable"
        /\ response.status = 503
        /\ response.work = {}

\* a request with a well-formed YouTube URL answered by a process without model
C5_Witness ==
    /\ response.kind = "model_unavailable"
    /\ extract_video_id(response.url) # NoId
    /\ sentiment_pipeline[response.worker] = None

\* the outcomes a request may have
KindedOutcomes ==
    {<<"tally", 200>>, <<"model_unavailable", 503>>, <<"invalid_url", 400>>,
     <<"comments_disabled", 403>>, <<"fetch_failure", 500>>, <<"inference_failure", 500>>}

\* C6: every request ends in a tally or one of the kinded failures; a request
\* that reached prediction ends in a tally or the inference failure; and the
\* process that answered keeps serving.
C6_KindedOutcome ==
    response # NoResponse =>
        /\ <<response.kind, response.status>> \in KindedOutcomes
        /\ "predict" \in response.work => response.kind \in {"tally", "inference_failure"}
        /\ response.kind = "tally" => (response.positive \in Nat /\ response.negative \in Nat)
        /\ pc[response.worker] = "serving"

\* prediction raised on a fetched batch and the request was answered 500
C6_Witness ==
    /\ response.kind = "inference_failure"
    /\ "predict" \in response.work
    /\ sentiment_pipeline[response.worker] # None

\* documents and labels pair up: every document has exactly one category
OneLabelEach(c) == \A f \in FileIds : Len(c[f]) = 1

\* C7: training that got past the preparation of documents and labels, or
\* wrote an artifact, had a corpus with exactly one label per document.
C7_DataIntegrity ==
    \A w \in Workers :
        (pc[w] \in {"dump", "dumping"} \/ MsgSaved \in log[w]) => OneLabelEach(corpus)

C9_SingleTrainingRun ==
    Cardinality({w \in Workers : pc[w] \in {"download", "fit", "dump", "dumping"}}) <= 1

\* C10: a process whose load succeeded goes straight to serving with the
\* pipeline the artifact held, without writing the file; it logs nothing of
\* the training path, and only a process that logged file-not-found is ever
\* in the training path.
C10_WarmStartLeavesArtifact ==
    /\ [](\A w \in Workers :
            /\ MsgLoaded \in log[w] =>
                (pc[w] = "serving" /\ log[w] = {MsgLoaded} /\ sentiment_pipeline[w].kind = "Pipeline")
            /\ pc[w] \in {"download", "fit", "dump", "dumping"} => MsgNotFound \in log[w])
    /\ [][\A w \in Workers :
            (pc[w] = "start" /\ pc'[w] = "serving") =>
                /\ artifact.kind = "complete"
                /\ artifact' = artifact
                /\ sentiment_pipeline'[w] = Pipeline(artifact.classes)]_vars

\* a warm-started process that has classified a batch
C10_Witness ==
    \E w \in Workers :
        /\ MsgLoaded \in log[w]
        /\ response.worker = w
        /\ response.kind = "tally"
        /\ response.n >= 1

====
